---------------------------- MODULE Spec2Model ----------------------------
(***************************************************************************)
(* A model of task1_clean_and_report.py: the lead cleaning pipeline        *)
(* (clean_leads), the report aggregation (generate_report) and the         *)
(* driver (main).                                                          *)
(*                                                                         *)
(* Text is modelled as sequences of one-character strings, so that         *)
(* str.strip(), str.lower(), the e-mail regular expression, the date       *)
(* parser and the CSV date formatter are computed, not assumed.            *)
(*                                                                         *)
(* A CSV file is a record [cols, rows] whose cells are text (the empty     *)
(* text is an empty field).  A DataFrame is a record [cols, rows] whose    *)
(* cells are tagged values: NaN, a str, a Timestamp (days since            *)
(* 1970-01-01, the time of day is not modelled), NaT, or a datetime.date.  *)
(*                                                                         *)
(* clean_leads ends in one of three ways: it returns, it raises the        *)
(* ValueError of a missing e-mail column (main exits with status 2), or,   *)
(* on a table without data rows, it raises a KeyError main does not catch. *)
(*                                                                         *)
(* Scope of the inputs: the trimmed column names of a header are pairwise  *)
(* distinct (pandas selects a sub-frame, not a column, for a duplicated    *)
(* name), and date cells are either ISO "YYYY-MM-DD" text or text that no  *)
(* date parser accepts.                                                    *)
(***************************************************************************)
EXTENDS Integers, Sequences, FiniteSets, TLC

VARIABLES
    pc,             \* main's position: "start", "loaded", "cleaned", "written", "done",
                    \* "failed" (sys.exit(2)) or "crashed" (an uncaught exception)
    run,            \* which invocation of the script this is (1, or 2 for a re-feed)
    inputFile,      \* the CSV file at --input
    df,             \* the DataFrame load_csv returned
    cleaned,        \* clean_leads' first result
    invalid_count,  \* clean_leads' second result
    removed_dups,   \* clean_leads' third result
    cleanSink,      \* the CSV file at --out, or Unwritten
    reportSink,     \* the workbook at --report, or Unwritten
    exitStatus,     \* the process's exit status, or Running
    console         \* what main printed (the summary lines or the error line)

vars == <<pc, run, inputFile, df, cleaned, invalid_count, removed_dups,
          cleanSink, reportSink, exitStatus, console>>

\* ------------------------------------------------------------------ bounds

\* The largest number of data rows of an input file.
MaxRows == 3

\* The longest raw e-mail text the e-mail specification enumerates.
MaxEmailLen == 6

\* ------------------------------------------------------------------ sequences

RECURSIVE SelectIdx(_, _, _)
\* The increasing sequence of the indices i >= from of s with keep[i].
SelectIdx(keep, n, from) ==
    IF from > n THEN <<>>
    ELSE IF keep[from] THEN <<from>> \o SelectIdx(keep, n, from + 1)
    ELSE SelectIdx(keep, n, from + 1)

Range(s) == {s[i] : i \in 1..Len(s)}

\* The smallest index of the boolean sequence flags that holds TRUE, or 0:
\* a for loop over the columns that breaks at the first hit.
FirstTrue(flags) ==
    IF \E i \in 1..Len(flags) : flags[i]
    THEN CHOOSE i \in 1..Len(flags) : flags[i] /\ \A j \in 1..(i - 1) : ~flags[j]
    ELSE 0

\* ------------------------------------------------------------------ text

LowerLetters == <<"a","b","c","d","e","f","g","h","i","j","k","l","m",
                  "n","o","p","q","r","s","t","u","v","w","x","y","z">>
UpperLetters == <<"A","B","C","D","E","F","G","H","I","J","K","L","M",
                  "N","O","P","Q","R","S","T","U","V","W","X","Y","Z">>
Digits == <<"0","1","2","3","4","5","6","7","8","9">>

AlnumChars == Range(LowerLetters) \cup Range(UpperLetters) \cup Range(Digits)
UpperChars == Range(UpperLetters)
DigitChars == Range(Digits)

IsAlnum(c) == c \in AlnumChars

\* str.isspace() on the characters of the model.
IsSpace(c) == c \in {" ", "\t", "\n", "\r", "\f"}

\* str.lower() of one character.
LowerChar(c) ==
    IF c \in UpperChars
    THEN LowerLetters[CHOOSE i \in 1..26 : UpperLetters[i] = c]
    ELSE c

\* str.lower()
Lower(s) == [i \in 1..Len(s) |-> LowerChar(s[i])]

RECURSIVE LStrip(_)
LStrip(s) == IF s # <<>> /\ IsSpace(Head(s)) THEN LStrip(Tail(s)) ELSE s

RECURSIVE RStrip(_)
RStrip(s) ==
    IF s # <<>> /\ IsSpace(s[Len(s)]) THEN RStrip(SubSeq(s, 1, Len(s) - 1)) ELSE s

\* str.strip()
Strip(s) == RStrip(LStrip(s))

\* ------------------------------------------------------------------ EMAIL_REGEX

\* The three character classes of EMAIL_REGEX.
InLocalClass(c)  == IsAlnum(c) \/ c \in {"_", ".", "+", "-"}
InDomainClass(c) == IsAlnum(c) \/ c = "-"
InTldClass(c)    == IsAlnum(c) \/ c \in {"-", "."}

\* One step of the automaton of [L]+@[D]+\.[T]+ : the states are
\* "^" (nothing read), "L" (in the local part), "@" (just after the @),
\* "D" (in the domain), "." (just after the dot), "T" (in the last segment),
\* "x" (no match).
RegexStep(q, c) ==
    CASE q = "^" -> IF InLocalClass(c) THEN "L" ELSE "x"
      [] q = "L" -> IF InLocalClass(c) THEN "L" ELSE IF c = "@" THEN "@" ELSE "x"
      [] q = "@" -> IF InDomainClass(c) THEN "D" ELSE "x"
      [] q = "D" -> IF InDomainClass(c) THEN "D" ELSE IF c = "." THEN "." ELSE "x"
      [] q = "." -> IF InTldClass(c) THEN "T" ELSE "x"
      [] q = "T" -> IF InTldClass(c) THEN "T" ELSE "x"
      [] OTHER   -> "x"

RECURSIVE RegexRun(_, _)
RegexRun(q, s) == IF s = <<>> THEN q ELSE RegexRun(RegexStep(q, Head(s)), Tail(s))

\* A mutant of RegexMatch: the pattern without its end anchor, so that a
\* prefix of the text may match.
RegexMatchPrefix(s) ==
    \E n \in 0..Len(s) : RegexRun("^", SubSeq(s, 1, n)) = "T"

\* EMAIL_REGEX.match(s) is not None.  Python's $ matches at the end of the
\* text and also just before a newline that ends the text.
RegexMatch(s) ==
    \/ RegexRun("^", s) = "T"
    \/ /\ s # <<>>
       /\ s[Len(s)] = "\n"
       /\ RegexRun("^", SubSeq(s, 1, Len(s) - 1)) = "T"


\* ------------------------------------------------------------------ dates

IsLeap(y) == (y % 4 = 0 /\ y % 100 # 0) \/ y % 400 = 0

DaysInMonth(y, m) ==
    IF m = 2 THEN (IF IsLeap(y) THEN 29 ELSE 28)
    ELSE IF m \in {4, 6, 9, 11} THEN 30 ELSE 31

\* The number of days from 1970-01-01 to the civil date y-m-d (the value a
\* Timestamp holds, in days).
DaysFromCivil(y, m, d) ==
    LET yy  == IF m <= 2 THEN y - 1 ELSE y
        era == yy \div 400
        yoe == yy - era * 400
        mp  == IF m > 2 THEN m - 3 ELSE m + 9
        doy == (153 * mp + 2) \div 5 + d - 1
        doe == yoe * 365 + yoe \div 4 - yoe \div 100 + doy
    IN  era * 146097 + doe - 719468

\* The civil date of a day number: Timestamp.date().
CivilFromDays(z) ==
    LET zz  == z + 719468
        era == zz \div 146097
        doe == zz - era * 146097
        yoe == (doe - doe \div 1460 + doe \div 36524 - doe \div 146096) \div 365
        doy == doe - (365 * yoe + yoe \div 4 - yoe \div 100)
        mp  == (5 * doy + 2) \div 153
        d   == doy - (153 * mp + 2) \div 5 + 1
        m   == IF mp < 10 THEN mp + 3 ELSE mp - 9
        y   == yoe + era * 400 + (IF m <= 2 THEN 1 ELSE 0)
    IN  [y |-> y, m |-> m, d |-> d]

IsDigit(c) == c \in DigitChars
DigitVal(c) == (CHOOSE i \in 1..10 : Digits[i] = c) - 1

\* pd.to_datetime(text, errors="coerce") on the texts of the model: an ISO
\* "YYYY-MM-DD" text naming a day of the calendar parses to that day,
\* anything else is coerced to NaT (0 stands for "no date" here; the caller
\* wraps the result).
ParseDate(s) ==
    IF /\ Len(s) = 10
       /\ s[5] = "-" /\ s[8] = "-"
       /\ \A i \in {1, 2, 3, 4, 6, 7, 9, 10} : IsDigit(s[i])
    THEN LET y == DigitVal(s[1]) * 1000 + DigitVal(s[2]) * 100
                  + DigitVal(s[3]) * 10 + DigitVal(s[4])
             m == DigitVal(s[6]) * 10 + DigitVal(s[7])
             d == DigitVal(s[9]) * 10 + DigitVal(s[10])
         IN  IF m \in 1..12 /\ d >= 1 /\ d <= DaysInMonth(y, m)
             THEN [ok |-> TRUE, days |-> DaysFromCivil(y, m, d)]
             ELSE [ok |-> FALSE]
    ELSE [ok |-> FALSE]

\* str(date): the ISO text to_csv writes for a date.
FormatDate(c) ==
    LET Dig(n) == Digits[(n % 10) + 1]
    IN  <<Dig(c.y \div 1000), Dig(c.y \div 100), Dig(c.y \div 10), Dig(c.y), "-",
          Dig(c.m \div 10), Dig(c.m), "-",
          Dig(c.d \div 10), Dig(c.d)>>

\* A mutant of WeekStartDays: weeks that start on Sunday.
WeekStartDaysSunday(days) == days - ((days + 4) % 7)

\* Timestamp.to_period("W").start_time, in days: the "W" frequency is
\* W-SUN, weeks that end on Sunday, so the period starts on the Monday on or
\* before the day (1970-01-01 was a Thursday).
WeekStartDays(days) == days - ((days + 3) % 7)

\* ------------------------------------------------------------------ cells

NaN == [k |-> "nan"]
NaT == [k |-> "nat"]
Str(s) == [k |-> "str", s |-> s]
Timestamp(days) == [k |-> "ts", days |-> days]
Date(c) == [k |-> "date", y |-> c.y, m |-> c.m, d |-> c.d]

\* pd.isna
IsNa(v) == v \in {NaN, NaT}

Unwritten == [k |-> "unwritten"]
Running == "running"

\* Texts read_csv reads as a missing value (its default na_values, those
\* over the characters of the model).
NaTexts ==
    { <<>>, <<"N","A">>, <<"N","/","A">>, <<"n","/","a">>, <<"n","a","n">>,
      <<"N","a","N">>, <<"n","u","l","l">>, <<"N","U","L","L">>,
      <<"N","o","n","e">> }

\* pd.read_csv(path, dtype=str): every cell is a str or NaN.
ReadCsv(file) ==
    [cols |-> file.cols,
     rows |-> [r \in 1..Len(file.rows) |->
                 [c \in 1..Len(file.cols) |->
                    IF file.rows[r][c] \in NaTexts THEN NaN
                    ELSE Str(file.rows[r][c])]]]

\* The text to_csv writes for a cell: a missing value is an empty field.
CellText(v) ==
    CASE v.k = "str"  -> v.s
      [] v.k = "ts"   -> FormatDate(CivilFromDays(v.days))
      [] v.k = "date" -> FormatDate(v)
      [] OTHER        -> <<>>

\* DataFrame.to_csv(path, index=False)
ToCsv(frame) ==
    [cols |-> frame.cols,
     rows |-> [r \in 1..Len(frame.rows) |->
                 [c \in 1..Len(frame.cols) |-> CellText(frame.rows[r][c])]]]

\* ------------------------------------------------------------------ frames

NoFrame == [cols |-> <<>>, rows |-> <<>>]

\* The position of the column called name (a header's names are distinct), or 0.
ColIndex(frame, name) ==
    FirstTrue([i \in 1..Len(frame.cols) |-> frame.cols[i] = name])

\* frame[name] : the column's cells, in row order.
Column(frame, name) ==
    LET ci == ColIndex(frame, name)
    IN  [r \in 1..Len(frame.rows) |-> frame.rows[r][ci]]

\* frame[name] = values : an existing column is overwritten in place, a new
\* one is appended on the right.
SetColumn(frame, name, values) ==
    LET ci == ColIndex(frame, name)
    IN
    IF ci # 0
    THEN [frame EXCEPT !.rows =
            [r \in 1..Len(frame.rows) |-> [frame.rows[r] EXCEPT ![ci] = values[r]]]]
    ELSE [cols |-> Append(frame.cols, name),
          rows |-> [r \in 1..Len(frame.rows) |-> Append(frame.rows[r], values[r])]]

\* frame[mask] : the rows whose mask is True, in order.  Series.apply on a
\* column of no rows returns an empty Series of the column's own (object)
\* dtype, which is no boolean mask: pandas then takes it for a list of
\* column labels, an empty one, and the result has no column at all.
FilterRows(frame, mask) ==
    IF Len(mask) = 0 THEN NoFrame
    ELSE LET idx == SelectIdx(mask, Len(frame.rows), 1)
         IN  [frame EXCEPT !.rows = [i \in 1..Len(idx) |-> frame.rows[idx[i]]]]

\* ------------------------------------------------------------------ clean_leads

EmailName == <<"e","m","a","i","l">>
DateAliases ==
    { <<"d","a","t","e">>,
      <<"c","r","e","a","t","e","d","_","a","t">>,
      <<"l","e","a","d","_","d","a","t","e">> }
NameDate     == <<"d","a","t","e">>
NameLeadDay  == <<"l","e","a","d","_","d","a","y">>
NameLeadWeek == <<"l","e","a","d","_","w","e","e","k">>

\* df.rename(columns={c: c.strip() for c in df.columns})
RenameStripped(frame) ==
    [frame EXCEPT !.cols = [i \in 1..Len(frame.cols) |-> Strip(frame.cols[i])]]

\* The loop that looks for the e-mail column: the first column, in header
\* order, whose name lower-cased is "email"; 0 stands for None.
FindEmailCol(cols) ==
    FirstTrue([i \in 1..Len(cols) |-> Lower(cols[i]) = EmailName])

\* A mutant of FindDateCol: the aliases are tried in the order of the alias
\* tuple, and the first alias some column carries wins.
FindDateColByAlias(cols) ==
    LET has(a) == \E i \in 1..Len(cols) : Lower(cols[i]) = a
        pos(a) == FirstTrue([i \in 1..Len(cols) |-> Lower(cols[i]) = a])
    IN  IF has(<<"d","a","t","e">>) THEN pos(<<"d","a","t","e">>)
        ELSE IF has(<<"c","r","e","a","t","e","d","_","a","t">>)
             THEN pos(<<"c","r","e","a","t","e","d","_","a","t">>)
        ELSE pos(<<"l","e","a","d","_","d","a","t","e">>)

\* A mutant of FindDateCol: a column whose name merely contains "date"
\* (`"date" in c.lower()`) is taken for the date column.
FindDateColSubstring(cols) ==
    FirstTrue([i \in 1..Len(cols) |->
                 \/ Lower(cols[i]) \in DateAliases
                 \/ \E o \in 1..(Len(cols[i]) - 3) :
                        SubSeq(Lower(cols[i]), o, o + 3) = NameDate])

\* The loop that looks for the date column: the first column, in header
\* order, whose name lower-cased is one of the aliases; 0 stands for None.
FindDateCol(cols) ==
    FirstTrue([i \in 1..Len(cols) |-> Lower(cols[i]) \in DateAliases])

\* Series.astype(str) of one cell: a missing value becomes the text "nan".
AsStr(v) == IF v.k = "str" THEN v ELSE Str(<<"n","a","n">>)

\* df[email_col].astype(str).str.strip()
StripEmailColumn(frame, ec) ==
    [frame EXCEPT !.rows =
       [r \in 1..Len(frame.rows) |->
          [frame.rows[r] EXCEPT ![ec] = Str(Strip(AsStr(frame.rows[r][ec]).s))]]]

\* valid_email(e)
valid_email(e) ==
    IF IsNa(e) THEN FALSE ELSE RegexMatch(Strip(e.s))

RECURSIVE DropDupIdx(_, _, _, _)
\* The indices, from i on, of the rows whose key was not seen before.
DropDupIdx(keys, n, i, seen) ==
    IF i > n THEN <<>>
    ELSE IF keys[i] \in seen THEN DropDupIdx(keys, n, i + 1, seen)
    ELSE <<i>> \o DropDupIdx(keys, n, i + 1, seen \cup {keys[i]})

RECURSIVE KeepLastIdx(_, _, _)
KeepLastIdx(keys, n, i) ==
    IF i > n THEN <<>>
    ELSE IF \E j \in (i + 1)..n : keys[j] = keys[i] THEN KeepLastIdx(keys, n, i + 1)
    ELSE <<i>> \o KeepLastIdx(keys, n, i + 1)

\* A mutant of drop_duplicates: keep="last".
drop_duplicates_keep_last(frame, ec) ==
    LET keys == [r \in 1..Len(frame.rows) |-> frame.rows[r][ec]]
        idx  == KeepLastIdx(keys, Len(keys), 1)
    IN  [frame EXCEPT !.rows = [i \in 1..Len(idx) |-> frame.rows[idx[i]]]]

\* A mutant of drop_duplicates: the subset argument is forgotten, so only
\* rows equal in every column are duplicates.
drop_duplicates_whole_row(frame, ec) ==
    LET keys == frame.rows
        idx  == DropDupIdx(keys, Len(keys), 1, {})
    IN  [frame EXCEPT !.rows = [i \in 1..Len(idx) |-> frame.rows[idx[i]]]]

\* valid_df.drop_duplicates(subset=[email_col]) : keep="first" is the default.
drop_duplicates(frame, ec) ==
    LET keys == [r \in 1..Len(frame.rows) |-> frame.rows[r][ec]]
        idx  == DropDupIdx(keys, Len(keys), 1, {})
    IN  [frame EXCEPT !.rows = [i \in 1..Len(idx) |-> frame.rows[idx[i]]]]

\* pd.to_datetime(cell, errors="coerce")
to_datetime(v) ==
    IF v.k = "str"
    THEN LET parsed == ParseDate(v.s)
         IN  IF parsed.ok THEN Timestamp(parsed.days) ELSE NaT
    ELSE NaT

\* Series.dt.date of one cell.
lead_day_of(v) == IF v.k = "ts" THEN Date(CivilFromDays(v.days)) ELSE NaT

\* Series.dt.to_period("W").apply(lambda r: r.start_time.date() if pd.notna(r) else pd.NaT)
lead_week_of(v) ==
    IF v.k = "ts" THEN Date(CivilFromDays(WeekStartDays(v.days))) ELSE NaT

\* The date column clean_leads goes on with: the resolved column parsed, or,
\* without one (dc = 0), a column of NaT.
DateColumnParsed(frame, dc) ==
    [r \in 1..Len(frame.rows) |->
       IF dc # 0 THEN to_datetime(frame.rows[r][dc]) ELSE NaT]

\* A mutant of InvalidCount: the rows dropped as duplicates are counted as
\* invalid too.
InvalidCountAfterDedup(frame, valid_df, deduped) == Len(frame.rows) - Len(deduped.rows)

\* invalid_count = len(df) - len(valid_df)
InvalidCount(frame, valid_df, deduped) == Len(frame.rows) - Len(valid_df.rows)

\* clean_leads(df): err says how the call ends, "ValueError" for the raise
\* of line 66, "KeyError" when a column is looked up in a valid_df that has
\* lost its columns (the date column at line 88, or the marker column at
\* line 99), "none" for a return of the three results.
clean_leads(frame) ==
    LET renamed == RenameStripped(frame)
        ec      == FindEmailCol(renamed.cols)
    IN  IF ec = 0 THEN [err |-> "ValueError"]
        ELSE
        LET stripped == StripEmailColumn(renamed, ec)
            mask     == [r \in 1..Len(stripped.rows) |-> valid_email(stripped.rows[r][ec])]
            valid_df == FilterRows(stripped, mask)
        IN  IF ColIndex(valid_df, stripped.cols[ec]) = 0 THEN [err |-> "KeyError"]
            ELSE
            LET deduped  == drop_duplicates(valid_df, ec)
                dc       == FindDateCol(stripped.cols)
                date_col == IF dc # 0 THEN stripped.cols[dc] ELSE NameDate
                dates    == DateColumnParsed(deduped, dc)
                withDate == SetColumn(deduped, date_col, dates)
                withDay  == SetColumn(withDate, NameLeadDay,
                                      [r \in 1..Len(dates) |-> lead_day_of(dates[r])])
                withWeek == SetColumn(withDay, NameLeadWeek,
                                      [r \in 1..Len(dates) |-> lead_week_of(dates[r])])
            IN  [err           |-> "none",
                 cleaned       |-> withWeek,
                 invalid_count |-> InvalidCount(stripped, valid_df, deduped),
                 removed_dups  |-> Len(valid_df.rows) - Len(deduped.rows)]

\* ------------------------------------------------------------------ generate_report

\* The order groupby sorts date keys in; a missing key, were it kept, sorts
\* last.
KeyLess(a, b) ==
    IF IsNa(a) THEN FALSE
    ELSE IF IsNa(b) THEN TRUE
    ELSE \/ a.y < b.y
         \/ a.y = b.y /\ a.m < b.m
         \/ a.y = b.y /\ a.m = b.m /\ a.d < b.d

RECURSIVE SortKeys(_)
\* The keys in ascending order.
SortKeys(keys) ==
    IF keys = {} THEN <<>>
    ELSE LET least == CHOOSE k \in keys : \A o \in keys \ {k} : KeyLess(k, o)
         IN  <<least>> \o SortKeys(keys \ {least})

\* A mutant of GroupKeys: groupby(..., dropna=False), a missing key is a
\* group of its own.
GroupKeysKeepNa(values) == Range(values)

\* The group keys of groupby(col): dropna=True is the default, rows whose key
\* is missing belong to no group.
GroupKeys(values) == {v \in Range(values) : ~IsNa(v)}

\* df.groupby(key)[email_col].count().rename("count").reset_index() : one
\* row per group key, ascending, with the number of non-missing e-mails.
GroupCount(frame, key, email_col) ==
    LET ks     == Column(frame, key)
        es     == Column(frame, email_col)
        sorted == SortKeys(GroupKeys(ks))
    IN  [i \in 1..Len(sorted) |->
           [key   |-> sorted[i],
            count |-> Cardinality({r \in 1..Len(ks) : ks[r] = sorted[i] /\ ~IsNa(es[r])})]]

\* Series.nunique(): the number of distinct non-missing values.
nunique(values) == Cardinality({v \in Range(values) : ~IsNa(v)})

\* generate_report(df, email_col, report_path): the three sheets written.
generate_report(frame, email_col) ==
    [daily   |-> IF ColIndex(frame, NameLeadDay) # 0
                 THEN GroupCount(frame, NameLeadDay, email_col) ELSE <<>>,
     weekly  |-> IF ColIndex(frame, NameLeadWeek) # 0
                 THEN GroupCount(frame, NameLeadWeek, email_col) ELSE <<>>,
     summary |-> [total_leads      |-> Len(frame.rows),
                  unique_customers |-> nunique(Column(frame, email_col))]]

\* ------------------------------------------------------------------ inputs

Txt_a_b_c     == <<"a","@","b",".","c">>
Txt_a_b_c_pad == <<" ","a","@","b",".","c"," ">>
Txt_A_b_c     == <<"A","@","b",".","c">>
Txt_a_b       == <<"a","@","b">>
Txt_z_z_z     == <<"z","@","z",".","z">>

\* E-mail cells: a valid address, the same address padded, the same address
\* in another case, an address without a dot in the domain, an empty field.
EmailPool == {Txt_a_b_c, Txt_a_b_c_pad, Txt_A_b_c, Txt_a_b, <<>>}

Monday_2024_01_01 == FormatDate([y |-> 2024, m |-> 1, d |-> 1])
Sunday_2024_01_07 == FormatDate([y |-> 2024, m |-> 1, d |-> 7])
Sunday_2023_12_31 == FormatDate([y |-> 2023, m |-> 12, d |-> 31])
Friday_2024_03_15 == FormatDate([y |-> 2024, m |-> 3, d |-> 15])
NoDay_2024_02_30  == FormatDate([y |-> 2024, m |-> 2, d |-> 30])

\* What a column of an input file holds, by the kind the header gives it.
CellPool(kind) ==
    CASE kind = "email"      -> EmailPool
      [] kind = "email4"     -> {Txt_a_b_c, Txt_a_b_c_pad, Txt_A_b_c, Txt_a_b}
      [] kind = "email2"     -> {Txt_a_b_c, Txt_A_b_c}
      [] kind = "date3"      -> {Monday_2024_01_01, Sunday_2024_01_07, <<>>}
      [] kind = "date4"      -> {Sunday_2024_01_07, Sunday_2023_12_31, NoDay_2024_02_30, <<>>}
      [] kind = "fixedEmail" -> {Txt_z_z_z}
      [] kind = "fixedDate"  -> {Friday_2024_03_15}
      [] OTHER               -> {<<"x">>}

\* The headers of the input files, each column with its kind.
Headers ==
    { [cols  |-> << <<" ","E","m","a","i","l"," ">>, <<"D","a","t","e">>, <<"n","a","m","e">> >>,
       kinds |-> <<"email4", "date3", "text">>],
      [cols  |-> << <<"n","a","m","e">>, <<"p","h","o","n","e">> >>,
       kinds |-> <<"text", "text">>],
      [cols  |-> << <<"c","r","e","a","t","e","d","_","a","t">>, <<"E","M","A","I","L">>,
                    <<"d","a","t","e">> >>,
       kinds |-> <<"date4", "email2", "fixedDate">>],
      [cols  |-> << <<"n","a","m","e">>, <<"e","m","a","i","l">>, <<"E","m","a","i","l">>,
                    <<"l","e","a","d","_","d","a","t","e"," ">> >>,
       kinds |-> <<"text", "email", "fixedEmail", "fixedDate">>],
      [cols  |-> << <<"e","m","a","i","l">>, <<"b","i","r","t","h","d","a","t","e">> >>,
       kinds |-> <<"email", "fixedDate">>],
      [cols  |-> << <<"D","a","t","e">>, <<"e","-","m","a","i","l">> >>,
       kinds |-> <<"fixedDate", "fixedEmail">>] }

RECURSIVE RowsOf(_, _)
\* The rows a header admits: every choice of a cell from each column's pool.
RowsOf(kinds, n) ==
    IF n = 0 THEN {<<>>}
    ELSE {Append(r, c) : r \in RowsOf(kinds, n - 1), c \in CellPool(kinds[n])}

\* The state main starts in, but for the input file.
InitRest ==
    /\ pc = "start"
    /\ run = 1
    /\ df = NoFrame
    /\ cleaned = NoFrame
    /\ invalid_count = 0
    /\ removed_dups = 0
    /\ cleanSink = Unwritten
    /\ reportSink = Unwritten
    /\ exitStatus = Running
    /\ console = <<>>

\* ------------------------------------------------------------------ main

ErrorLine == "Error: Input CSV must contain an 'email' column"

\* The input file is any header of Headers with at most MaxRows rows.
Init ==
    /\ InitRest
    /\ \E h \in Headers, n \in 0..MaxRows :
          \E rows \in [1..n -> RowsOf(h.kinds, Len(h.kinds))] :
              inputFile = [cols |-> h.cols, rows |-> rows]

\* df = load_csv(in_path)
load_csv ==
    /\ pc = "start"
    /\ df' = ReadCsv(inputFile)
    /\ pc' = "loaded"
    /\ UNCHANGED <<run, inputFile, cleaned, invalid_count, removed_dups,
                   cleanSink, reportSink, exitStatus, console>>

\* A mutant of main_schema_error: the (empty) clean file is written before
\* the process exits.
main_schema_error_writes ==
    /\ pc = "loaded"
    /\ clean_leads(df).err = "ValueError"
    /\ console' = <<ErrorLine>>
    /\ exitStatus' = 2
    /\ cleanSink' = ToCsv(df)
    /\ pc' = "failed"
    /\ UNCHANGED <<run, inputFile, df, cleaned, invalid_count, removed_dups, reportSink>>

\* main: clean_leads raised ValueError; the message goes to stderr and the
\* process exits with status 2.
main_schema_error ==
    /\ pc = "loaded"
    /\ clean_leads(df).err = "ValueError"
    /\ console' = <<ErrorLine>>
    /\ exitStatus' = 2
    /\ pc' = "failed"
    /\ UNCHANGED <<run, inputFile, df, cleaned, invalid_count, removed_dups,
                   cleanSink, reportSink>>

\* main: clean_leads raised an exception main does not catch; the
\* interpreter prints the traceback and exits with status 1.
main_uncaught_error ==
    /\ pc = "loaded"
    /\ clean_leads(df).err = "KeyError"
    /\ console' = <<"KeyError">>
    /\ exitStatus' = 1
    /\ pc' = "crashed"
    /\ UNCHANGED <<run, inputFile, df, cleaned, invalid_count, removed_dups,
                   cleanSink, reportSink>>

\* main: cleaned, invalid_count, removed_dups = clean_leads(df)
main_clean_leads ==
    /\ pc = "loaded"
    /\ LET result == clean_leads(df)
       IN  /\ result.err = "none"
           /\ cleaned' = result.cleaned
           /\ invalid_count' = result.invalid_count
           /\ removed_dups' = result.removed_dups
    /\ pc' = "cleaned"
    /\ UNCHANGED <<run, inputFile, df, cleanSink, reportSink, exitStatus, console>>

\* main: cleaned.to_csv(out_path, index=False)
main_to_csv ==
    /\ pc = "cleaned"
    /\ cleanSink' = ToCsv(cleaned)
    /\ pc' = "written"
    /\ UNCHANGED <<run, inputFile, df, cleaned, invalid_count, removed_dups,
                   reportSink, exitStatus, console>>

\* main: the e-mail column is looked up again in cleaned, generate_report
\* writes the workbook, the summary is printed and the process ends.
main_generate_report ==
    /\ pc = "written"
    /\ LET email_col == cleaned.cols[FindEmailCol(cleaned.cols)]
           report    == generate_report(cleaned, email_col)
       IN  /\ reportSink' = report
           /\ console' = <<Len(cleaned.rows), invalid_count, removed_dups,
                           report.summary.unique_customers>>
    /\ exitStatus' = 0
    /\ pc' = "done"
    /\ UNCHANGED <<run, inputFile, df, cleaned, invalid_count, removed_dups, cleanSink>>

\* The operator runs the script again, on the clean file the first run
\* wrote and with fresh output paths.
Refeed ==
    /\ pc = "done"
    /\ run = 1
    /\ run' = 2
    /\ inputFile' = cleanSink
    /\ pc' = "start"
    /\ df' = NoFrame
    /\ cleaned' = NoFrame
    /\ invalid_count' = 0
    /\ removed_dups' = 0
    /\ cleanSink' = Unwritten
    /\ reportSink' = Unwritten
    /\ exitStatus' = Running
    /\ console' = <<>>

Next ==
    \/ load_csv
    \/ main_schema_error
    \/ main_uncaught_error
    \/ main_clean_leads
    \/ main_to_csv
    \/ main_generate_report
    \/ Refeed

Spec == Init /\ [][Next]_vars

\* ------------------------------------------------------------------ other inputs

NameName == <<"n","a","m","e">>

\* A file of one row whose e-mail cell is the given text.
OneEmailFile(text) ==
    [cols |-> <<EmailName, NameName>>, rows |-> << <<text, <<"x">> >> >>]

\* A file of one row, a valid e-mail and the given date cell.
OneDateFile(text) ==
    [cols |-> <<EmailName, NameDate>>, rows |-> << <<Txt_a_b_c, text>> >>]

\* The characters raw e-mail texts are built from: a letter, a character of
\* the local part only, the dot, the at sign, and a blank.
EmailAlphabet == {"a", "_", ".", "@", " "}

\* The years the date specification draws from: before and at the epoch, a
\* leap century, a common and a leap year, a common century.
DateYears == {1969, 1970, 2000, 2023, 2024, 2100}

\* The input file is one row whose e-mail is any text over EmailAlphabet of
\* at most MaxEmailLen characters.
InitEmail ==
    /\ InitRest
    /\ \E n \in 0..MaxEmailLen :
          \E text \in [1..n -> EmailAlphabet] : inputFile = OneEmailFile(text)

\* The input file is one row whose date is empty or any text YYYY-MM-DD with
\* a year of DateYears, a month 1..12 and a day 1..31 (so days that do not
\* exist too).
InitDates ==
    /\ InitRest
    /\ \/ inputFile = OneDateFile(<<>>)
       \/ \E y \in DateYears, m \in 1..12, d \in 1..31 :
             inputFile = OneDateFile(FormatDate([y |-> y, m |-> m, d |-> d]))

\* main up to the return of clean_leads.
NextClean == load_csv \/ main_clean_leads

\* The pipeline on one row with an arbitrary e-mail text.
SpecEmail == InitEmail /\ [][NextClean]_vars

\* The pipeline on one row with an arbitrary date text.
SpecDates == InitDates /\ [][NextClean]_vars

\* ------------------------------------------------------------------ the claims' vocabulary

\* main is past the call of clean_leads, which returned.
Cleaned == pc \in {"cleaned", "written", "done"}

\* The text without its surrounding whitespace, said directly: the part
\* from the first to the last character that is not whitespace.
Trimmed(s) ==
    LET solid == {i \in 1..Len(s) : ~IsSpace(s[i])}
    IN  IF solid = {} THEN <<>>
        ELSE SubSeq(s, CHOOSE i \in solid : \A j \in solid : i <= j,
                       CHOOSE i \in solid : \A j \in solid : j <= i)

\* local@domain.tld, said directly: an @ at position a and a dot at position
\* d, a non-empty local part before a, a non-empty domain between them, a
\* non-empty last segment after d, each over its own characters, and nothing
\* else in the text.
EmailSyntax(t) ==
    \E a \in 2..Len(t), d \in 2..(Len(t) - 1) :
        /\ a + 2 <= d
        /\ t[a] = "@"
        /\ t[d] = "."
        /\ \A i \in 1..(a - 1) : IsAlnum(t[i]) \/ t[i] \in {"_", ".", "+", "-"}
        /\ \A i \in (a + 1)..(d - 1) : IsAlnum(t[i]) \/ t[i] = "-"
        /\ \A i \in (d + 1)..Len(t) : IsAlnum(t[i]) \/ t[i] \in {"-", "."}

\* The text of a loaded cell; a missing value has none.
TextOf(v) == IF v.k = "str" THEN v.s ELSE <<>>

\* The validity predicate of a loaded e-mail cell.
ValidCell(v) ==
    /\ v.k = "str"
    /\ Trimmed(v.s) # <<>>
    /\ EmailSyntax(Trimmed(v.s))

\* Whether clean_leads keeps the one row of a file holding this e-mail text.
Accepts(text) == Len(clean_leads(ReadCsv(OneEmailFile(text))).cleaned.rows) = 1

\* C5: a row is a valid row exactly when its e-mail, trimmed, is non-empty
\* and is in full local@domain.tld over the three character classes; a
\* missing or empty e-mail is invalid; 'a@b.co' is valid, 'a@b' and '@b.co'
\* are not, ' a@b.co ' is valid after the trim.
C5_ValidExactlyWhenSyntax ==
    /\ Cleaned =>
         /\ \A r \in 1..Len(df.rows) :
               (\E k \in 1..Len(cleaned.rows) :
                    cleaned.rows[k][1] = Str(Trimmed(TextOf(df.rows[r][1]))))
               <=> ValidCell(df.rows[r][1])
         /\ invalid_count = Cardinality({r \in 1..Len(df.rows) : ~ValidCell(df.rows[r][1])})
         /\ \A k \in 1..Len(cleaned.rows) : ValidCell(cleaned.rows[k][1])
    /\ Accepts(<<"a","@","b",".","c","o">>)
    /\ ~Accepts(<<"a","@","b">>)
    /\ ~Accepts(<<"@","b",".","c","o">>)
    /\ Accepts(<<" ","a","@","b",".","c","o"," ">>)
    /\ ~Accepts(<<>>)
    /\ Accepts(<<"A","+","1","-","@","Z","-","9",".","c","-",".","U","K">>)
    /\ ~Accepts(<<"a","@","b","+",".","c">>)
    /\ ~Accepts(<<"a","@","b",".","c","+">>)

\* C5's case: a text that is valid only once trimmed has been accepted.
C5_Witness ==
    /\ Cleaned
    /\ Len(cleaned.rows) = 1
    /\ inputFile.rows[1][1] # Trimmed(inputFile.rows[1][1])

\* The e-mail column of a header: the first whose name, trimmed and
\* lower-cased, is "email" (0: none).
EmailColumnOf(cols) ==
    IF \E i \in 1..Len(cols) : Lower(Trimmed(cols[i])) = EmailName
    THEN CHOOSE i \in 1..Len(cols) :
            /\ Lower(Trimmed(cols[i])) = EmailName
            /\ \A j \in 1..(i - 1) : Lower(Trimmed(cols[j])) # EmailName
    ELSE 0

\* The date column of a header: the first whose name, trimmed and
\* lower-cased, is one of the aliases (0: none).
DateColumnOf(cols) ==
    IF \E i \in 1..Len(cols) : Lower(Trimmed(cols[i])) \in DateAliases
    THEN CHOOSE i \in 1..Len(cols) :
            /\ Lower(Trimmed(cols[i])) \in DateAliases
            /\ \A j \in 1..(i - 1) : Lower(Trimmed(cols[j])) \notin DateAliases
    ELSE 0

\* The Canonical Email of row r of the loaded table.
CanonicalEmail(r) == Trimmed(TextOf(df.rows[r][EmailColumnOf(df.cols)]))

\* The valid rows of the loaded table.
ValidRows ==
    LET ec == EmailColumnOf(df.cols)
    IN  {r \in 1..Len(df.rows) : ValidCell(df.rows[r][ec])}

\* The valid rows that no earlier valid row shares its Canonical Email with.
FirstOccurrences ==
    LET ec    == EmailColumnOf(df.cols)
        valid == ValidRows
        keys  == [r \in 1..Len(df.rows) |-> Trimmed(TextOf(df.rows[r][ec]))]
    IN  {r \in valid : \A j \in valid : j < r => keys[j] # keys[r]}

\* The k-th smallest element of a set of numbers.
Nth(S, k) == CHOOSE x \in S : Cardinality({y \in S : y < x}) = k - 1

\* The cells of the Clean Records in the columns lead_day and lead_week.
LeadDay(k)  == cleaned.rows[k][ColIndex(cleaned, NameLeadDay)]
LeadWeek(k) == cleaned.rows[k][ColIndex(cleaned, NameLeadWeek)]
CleanEmail(k) == cleaned.rows[k][EmailColumnOf(df.cols)]

\* C4: invalid_count + the number of valid rows = the number of input rows,
\* and removed_dups + the number of Clean Records = the number of valid rows.
C4_CountersAccount ==
    Cleaned =>
        /\ invalid_count + Cardinality(ValidRows) = Len(df.rows)
        /\ removed_dups + Len(cleaned.rows) = Cardinality(ValidRows)
        /\ Len(inputFile.rows) = invalid_count + removed_dups + Len(cleaned.rows)

\* C4's case: a run that dropped an invalid row and a duplicate and kept a row.
C4_Witness ==
    /\ Cleaned
    /\ invalid_count >= 1
    /\ removed_dups >= 1
    /\ Len(cleaned.rows) >= 1

\* C2: no two Clean Records have the same Canonical Email, and the Summary's
\* 'Total Clean Leads' equals its 'Unique Customers (by email)'.
C2_UniqueEmails ==
    /\ Cleaned =>
         \A k, l \in 1..Len(cleaned.rows) :
             k # l => Trimmed(TextOf(CleanEmail(k))) # Trimmed(TextOf(CleanEmail(l)))
    /\ pc = "done" =>
         /\ reportSink.summary.total_leads = Len(cleaned.rows)
         /\ reportSink.summary.unique_customers = reportSink.summary.total_leads

\* C2's case: a report written after a duplicate was removed, with two Clean
\* Records whose e-mails differ in case only.
C2_Witness ==
    /\ pc = "done"
    /\ removed_dups >= 1
    /\ \E k, l \in 1..Len(cleaned.rows) :
          /\ k # l
          /\ Lower(CleanEmail(k).s) = Lower(CleanEmail(l).s)

\* C3: the Clean Records are, in input order, the rows that carry a valid
\* Canonical Email for the first time, each with its own field values (the
\* e-mail trimmed, the date column parsed, lead_day and lead_week derived
\* from its own date).
C3_FirstWins ==
    Cleaned =>
        LET first == FirstOccurrences
            ec    == EmailColumnOf(df.cols)
            dc    == DateColumnOf(df.cols)
            dayc  == ColIndex(cleaned, NameLeadDay)
            weekc == ColIndex(cleaned, NameLeadWeek)
        IN
        /\ Len(cleaned.rows) = Cardinality(first)
        /\ \A k \in 1..Len(cleaned.rows) :
              LET i   == Nth(first, k)
                  own == IF dc = 0 THEN NaT ELSE to_datetime(df.rows[i][dc])
              IN  /\ \A c \in 1..Len(df.cols) :
                        cleaned.rows[k][c] =
                            IF c = ec THEN Str(Trimmed(TextOf(df.rows[i][ec])))
                            ELSE IF c = dc THEN own
                            ELSE IF c = dayc THEN lead_day_of(own)
                            ELSE IF c = weekc THEN lead_week_of(own)
                            ELSE df.rows[i][c]
                  /\ cleaned.rows[k][dayc] = lead_day_of(own)
                  /\ cleaned.rows[k][weekc] = lead_week_of(own)

\* C3's case: rows 1 and 2 share an e-mail, row 1 has no date and row 2 has
\* one, and row 3 survives after the removed row.
C3_Witness ==
    /\ Cleaned
    /\ Len(df.rows) >= 3
    /\ DateColumnOf(df.cols) # 0
    /\ {1, 2} \subseteq ValidRows
    /\ CanonicalEmail(1) = CanonicalEmail(2)
    /\ to_datetime(df.rows[1][DateColumnOf(df.cols)]) = NaT
    /\ to_datetime(df.rows[2][DateColumnOf(df.cols)]) # NaT
    /\ FirstOccurrences = {1, 3}

RECURSIVE SumCounts(_)
\* The sum of count over the rows of a count table.
SumCounts(rows) == IF rows = <<>> THEN 0 ELSE Head(rows).count + SumCounts(Tail(rows))

\* The Clean Records whose lead_day (lead_week) is present.
Dated      == {k \in 1..Len(cleaned.rows) : ~IsNa(LeadDay(k))}
WeekDated  == {k \in 1..Len(cleaned.rows) : ~IsNa(LeadWeek(k))}

\* The lead_day (lead_week) of every Clean Record, in order.
LeadDays  == [k \in 1..Len(cleaned.rows) |-> LeadDay(k)]
LeadWeeks == [k \in 1..Len(cleaned.rows) |-> LeadWeek(k)]

\* A count table partitions the records whose key is present: one row per
\* present key, no other row, each row counting the records with its key.
PartitionsPresent(table, keys) ==
    /\ \A i, j \in 1..Len(table) : i # j => table[i].key # table[j].key
    /\ {table[i].key : i \in 1..Len(table)} = {keys[k] : k \in {l \in 1..Len(keys) : ~IsNa(keys[l])}}
    /\ \A i \in 1..Len(table) :
          table[i].count = Cardinality({k \in 1..Len(keys) : keys[k] = table[i].key})

\* C1, as the spec states it: the counts of the Daily rows, and of the
\* Weekly rows, sum to the number of Clean Records, the records without a
\* date being counted in a row keyed by the absent sentinel.
C1_Original ==
    pc = "done" =>
        /\ SumCounts(reportSink.daily) = Len(cleaned.rows)
        /\ SumCounts(reportSink.weekly) = Len(cleaned.rows)

\* C1, amended: the Daily rows partition the Clean Records whose date is
\* present, and so do the Weekly rows; the counts sum to the number of those
\* records, and no row is keyed by the absent sentinel: the records without
\* a date are in neither table.
C1_DatedRecordsPartitioned ==
    pc = "done" =>
        /\ PartitionsPresent(reportSink.daily, LeadDays)
        /\ PartitionsPresent(reportSink.weekly, LeadWeeks)
        /\ SumCounts(reportSink.daily) = Cardinality(Dated)
        /\ SumCounts(reportSink.weekly) = Cardinality(WeekDated)
        /\ \A i \in 1..Len(reportSink.daily) : ~IsNa(reportSink.daily[i].key)
        /\ \A i \in 1..Len(reportSink.weekly) : ~IsNa(reportSink.weekly[i].key)
        /\ SumCounts(reportSink.daily) = Len(cleaned.rows) - Cardinality({k \in 1..Len(cleaned.rows) : IsNa(LeadDay(k))})

\* C1's case: a report over two Clean Records, one with a date and one
\* without.
C1_Witness ==
    /\ pc = "done"
    /\ Len(cleaned.rows) = 2
    /\ Cardinality(Dated) = 1
    /\ Len(reportSink.daily) = 1
    /\ Len(reportSink.weekly) = 1

\* The input has no date-like column, and has an e-mail column.
NoDateColumn ==
    /\ DateColumnOf(inputFile.cols) = 0
    /\ EmailColumnOf(inputFile.cols) # 0

NoEmailColumn ==
    \A i \in 1..Len(inputFile.cols) : Lower(Trimmed(inputFile.cols[i])) # EmailName

\* C7: without an e-mail column the run ends in the schema error with exit
\* status 2 and writes neither sink; in every run a sink is written only
\* after clean_leads has returned its results.
C7_SchemaErrorNoOutput ==
    /\ NoEmailColumn =>
          /\ pc \in {"start", "loaded", "failed"}
          /\ pc = "loaded" => (ENABLED main_schema_error /\ ~ENABLED main_clean_leads)
          /\ pc = "failed" => (exitStatus = 2 /\ console = <<ErrorLine>>)
          /\ cleanSink = Unwritten
          /\ reportSink = Unwritten
    /\ pc = "failed" => (exitStatus = 2 /\ cleanSink = Unwritten /\ reportSink = Unwritten)
    /\ cleanSink # Unwritten =>
          /\ pc \in {"written", "done"}
          /\ clean_leads(df).err = "none"
          /\ cleanSink = ToCsv(clean_leads(df).cleaned)
    /\ reportSink # Unwritten => (pc = "done" /\ cleanSink # Unwritten)

\* C7's case: a run on an input that has rows and a date column but no
\* e-mail column has failed.
C7_Witness ==
    /\ NoEmailColumn
    /\ pc = "failed"
    /\ Len(inputFile.rows) >= 1
    /\ DateColumnOf(inputFile.cols) # 0

\* C8: a run on the clean file of an earlier run ends without an error,
\* finds no invalid row and no duplicate, and its Clean Records, written
\* out, are that file again.
C8_RefeedIsFixedPoint ==
    run = 2 =>
        /\ pc \notin {"failed", "crashed"}
        /\ Cleaned =>
              /\ invalid_count = 0
              /\ removed_dups = 0
              /\ Len(cleaned.rows) = Len(inputFile.rows)
              /\ ToCsv(cleaned) = inputFile

\* What does hold of a re-feed: a second run that gets past clean_leads (its
\* input, the first run's clean file, has at least one record) finds no
\* invalid row and no duplicate and writes the same file again.
RefeedOfRecordsIsFixedPoint ==
    (run = 2 /\ Cleaned) =>
        /\ invalid_count = 0
        /\ removed_dups = 0
        /\ Len(cleaned.rows) = Len(inputFile.rows)
        /\ Len(cleaned.rows) >= 1
        /\ ToCsv(cleaned) = inputFile

\* C10: the header is trimmed; the e-mail column is the first column whose
\* trimmed name is "email" in any case; the date column is the first column,
\* in header order, whose trimmed name is one of the aliases in any case; and
\* lead_day and lead_week come from that column alone.
C10_ResolutionByHeaderOrder ==
    LET ec == EmailColumnOf(df.cols)
        dc == DateColumnOf(df.cols)
    IN  /\ pc = "failed" => ec = 0
        /\ Cleaned =>
             LET valid == ValidRows
                 dayc  == ColIndex(cleaned, NameLeadDay)
                 weekc == ColIndex(cleaned, NameLeadWeek)
                 key(r) == Trimmed(TextOf(df.rows[r][ec]))
             IN
             /\ ec # 0
             /\ \A c \in 1..Len(df.cols) : cleaned.cols[c] = Trimmed(df.cols[c])
             /\ {cleaned.rows[k][ec] : k \in 1..Len(cleaned.rows)} = {Str(key(r)) : r \in valid}
             /\ Len(cleaned.rows) = Cardinality({key(r) : r \in valid})
             /\ \A k \in 1..Len(cleaned.rows), c \in 1..Len(df.cols) :
                   (c # dc /\ c # dayc /\ c # weekc) => cleaned.rows[k][c].k \in {"str", "nan"}
             /\ dc # 0 =>
                   \A k \in 1..Len(cleaned.rows) :
                       /\ cleaned.rows[k][dc].k \in {"ts", "nat"}
                       /\ CellText(cleaned.rows[k][dayc]) = CellText(cleaned.rows[k][dc])
                       /\ IsNa(cleaned.rows[k][dayc]) <=> IsNa(cleaned.rows[k][weekc])
                       /\ \E r \in valid :
                             /\ key(r) = cleaned.rows[k][ec].s
                             /\ \A j \in valid : j < r => key(j) # key(r)
                             /\ ~IsNa(cleaned.rows[k][dayc])
                                   => CellText(cleaned.rows[k][dayc]) = TextOf(df.rows[r][dc])

\* C10's case: the header has a padded, capitalised e-mail column or two
\* e-mail columns, the first date-like column is not the first alias of the
\* list while a later column is, and a record got its day from it.
C10_Witness ==
    /\ Cleaned
    /\ run = 1
    /\ DateColumnOf(df.cols) # 0
    /\ Lower(Trimmed(df.cols[DateColumnOf(df.cols)])) # NameDate
    /\ \E c \in 1..Len(df.cols) : c > DateColumnOf(df.cols) /\ Lower(Trimmed(df.cols[c])) = NameDate
    /\ df.cols[EmailColumnOf(df.cols)] # EmailName
    /\ \E k \in 1..Len(cleaned.rows) : ~IsNa(LeadDay(k))

\* The day of the week of a civil date, 0 for Sunday, by the table of month
\* offsets.
DayOfWeek(c) ==
    LET t == <<0, 3, 2, 5, 0, 3, 5, 1, 4, 6, 2, 4>>
        y == IF c.m < 3 THEN c.y - 1 ELSE c.y
    IN  (y + y \div 4 - y \div 100 + y \div 400 + t[c.m] + c.d) % 7

\* The day after a civil date.
NextDay(c) ==
    IF c.d < DaysInMonth(c.y, c.m) THEN [c EXCEPT !.d = c.d + 1]
    ELSE IF c.m < 12 THEN [c EXCEPT !.m = c.m + 1, !.d = 1]
    ELSE [c EXCEPT !.y = c.y + 1, !.m = 1, !.d = 1]

RECURSIVE PlusDays(_, _)
PlusDays(c, n) == IF n = 0 THEN c ELSE PlusDays(NextDay(c), n - 1)

\* C6: lead_day and lead_week of a Clean Record are both absent or both
\* present; when present, lead_week is a Monday and lead_day is that Monday
\* or one of the six days after it.
C6_WeekIsMondayOfDay ==
    Cleaned =>
        \A k \in 1..Len(cleaned.rows) :
            /\ IsNa(LeadDay(k)) <=> IsNa(LeadWeek(k))
            /\ ~IsNa(LeadDay(k)) =>
                  /\ LeadDay(k).k = "date"
                  /\ LeadWeek(k).k = "date"
                  /\ DayOfWeek(LeadWeek(k)) = 1
                  /\ \E n \in 0..6 : PlusDays(LeadWeek(k), n) = LeadDay(k)

\* C6's case: a record dated on a Sunday whose week began in the year before.
C6_Witness ==
    /\ Cleaned
    /\ Len(cleaned.rows) = 1
    /\ ~IsNa(LeadDay(1))
    /\ DayOfWeek(LeadDay(1)) = 0
    /\ LeadWeek(1).y < LeadDay(1).y

=============================================================================
